---- MODULE Spec2Model ----
(***************************************************************************)
(* A model of inspire_schemas/api.py: the LiteratureBuilder, which owns    *)
(* one record (self.obj, a Python dict) and mutates it through add_*       *)
(* methods, the make_author helper, and validate / validate_object.        *)
(*                                                                         *)
(* Python values are modelled as tagged records, so that values of         *)
(* different Python types are different values of the model:               *)
(*   None   [none |-> TRUE]        str   [str  |-> s]                      *)
(*   bool   [bool |-> b]           int   [int  |-> n]                      *)
(*   list   [list |-> <<..>>]      dict  [dict |-> f]  (f: keys -> values) *)
(*   a generator object  [generator |-> <<the values it would yield>>]     *)
(* A str whose characters the code looks at (strip, lower, split, regex,   *)
(* int) carries a sequence of one-character strings; a str the code only   *)
(* stores carries a TLA+ string.                                           *)
(***************************************************************************)
EXTENDS Integers, Sequences, FiniteSets, TLC

VARIABLES
    obj,      \* self.obj: a function from the keys present to their values
    source,   \* self.source: the builder's default source
    ret,      \* the value the last call returned (None for the add_* methods)
    exc,      \* the exception the last call raised, "" if it raised none
    last,     \* the last call: its method name and its arguments
    pre,      \* self.obj as it was when the last call started
    loaded,   \* the schema name the last validate call handed to load_schema
    nappend,  \* per sequence field, the calls made so far of its appender
    ncalls    \* the number of calls made on the builder so far

vars == <<obj, source, ret, exc, last, pre, loaded, nappend, ncalls>>

----------------------------------------------------------------------------
(* Bounds of the model.                                                    *)

\* calls made on one builder
MaxCalls == 2

\* characters of an author name, in the specification of make_author alone
MaxNameLen == 4
\* The longest suffix of a DOI handed to add_doi under SpecDoi.
MaxSuffixLen == 4

----------------------------------------------------------------------------
(* Python values.                                                          *)

None == [none |-> TRUE]
PyStr(s) == [str |-> s]
PyBool(b) == [bool |-> b]
PyInt(n) == [int |-> n]
PyList(s) == [list |-> s]
PyDict(f) == [dict |-> f]
PyGenerator(s) == [generator |-> s]

IsStr(v) == DOMAIN v = {"str"}
IsInt(v) == DOMAIN v = {"int"}
IsList(v) == DOMAIN v = {"list"}
IsDict(v) == DOMAIN v = {"dict"}

\* The dict f with key k set to v (f[k] = v in Python).
SetItem(f, k, v) == [x \in DOMAIN f \cup {k} |-> IF x = k THEN v ELSE f[x]]

\* The empty Python dict's mapping.
EmptyMap == [x \in {} |-> None]

\* `x in lst` for a Python list: some element equals x.
Contains(lst, x) == \E i \in 1..Len(lst.list) : lst.list[i] = x

\* bool(v) for the values the builder tests: None, an empty str and the int 0
\* are false.
Truthy(v) ==
    IF v = None THEN FALSE
    ELSE IF IsStr(v) THEN v.str # <<>>
    ELSE IF IsInt(v) THEN v.int # 0
    ELSE TRUE

----------------------------------------------------------------------------
(* Characters and the str methods the code calls.                          *)

UpperCase == <<"A","B","C","D","E","F","G","H","I","J","K","L","M",
               "N","O","P","Q","R","S","T","U","V","W","X","Y","Z">>
LowerCase == <<"a","b","c","d","e","f","g","h","i","j","k","l","m",
               "n","o","p","q","r","s","t","u","v","w","x","y","z">>
Digits == <<"0","1","2","3","4","5","6","7","8","9">>

Range(s) == {s[i] : i \in 1..Len(s)}
IsUpper(c) == c \in Range(UpperCase)
IsDigit(c) == c \in Range(Digits)
\* Whitespace, for str.strip and \s of the re module.
SpaceChars == {" ", "\t", "\n", "\r"}
IsSpace(c) == c \in SpaceChars
\* \w of the re module: a letter, a digit or the underscore.
WordChars == Range(UpperCase) \cup Range(LowerCase) \cup Range(Digits) \cup {"_"}

IndexOf(s, c) == CHOOSE i \in 1..Len(s) : s[i] = c
LowerChar(c) == IF IsUpper(c) THEN LowerCase[IndexOf(UpperCase, c)] ELSE c

\* s.lower()
RECURSIVE lower(_)
lower(s) == IF s = <<>> THEN <<>> ELSE <<LowerChar(Head(s))>> \o lower(Tail(s))

\* s.strip(): leading and trailing whitespace removed.
RECURSIVE lstrip(_)
lstrip(s) == IF s # <<>> /\ IsSpace(Head(s)) THEN lstrip(Tail(s)) ELSE s
RECURSIVE rstrip(_)
rstrip(s) ==
    IF s # <<>> /\ IsSpace(s[Len(s)]) THEN rstrip(SubSeq(s, 1, Len(s) - 1)) ELSE s
strip(s) == rstrip(lstrip(s))

\* s.split(sep) for a one-character sep: the pieces between the separators,
\* as a sequence of character sequences (never empty).
RECURSIVE split(_, _)
split(s, sep) ==
    IF \A i \in 1..Len(s) : s[i] # sep THEN <<s>>
    ELSE LET k == CHOOSE i \in 1..Len(s) :
                      s[i] = sep /\ \A j \in 1..(i - 1) : s[j] # sep
         IN  <<SubSeq(s, 1, k - 1)>> \o split(SubSeq(s, k + 1, Len(s)), sep)

\* s.replace(c, ''): every occurrence of the character c removed.
RECURSIVE remove(_, _)
remove(s, c) ==
    IF s = <<>> THEN <<>>
    ELSE IF Head(s) = c THEN remove(Tail(s), c)
    ELSE <<Head(s)>> \o remove(Tail(s), c)

\* sep.join(parts)
RECURSIVE join(_, _)
join(sep, parts) ==
    IF parts = <<>> THEN <<>>
    ELSE IF Len(parts) = 1 THEN parts[1]
    ELSE parts[1] \o sep \o join(sep, Tail(parts))

\* str(n) for an int n >= 0: its decimal digits.
RECURSIVE str(_)
str(n) == IF n < 10 THEN <<Digits[n + 1]>> ELSE str(n \div 10) \o <<Digits[(n % 10) + 1]>>

\* int(v) for a str or an int v: [ok |-> TRUE, val |-> n], or ok = FALSE where
\* Python raises ValueError.  A str is read after strip(), with an optional
\* sign and at least one digit.
RECURSIVE DigitsValue(_)
DigitsValue(s) ==
    IF s = <<>> THEN 0
    ELSE 10 * DigitsValue(SubSeq(s, 1, Len(s) - 1)) + (IndexOf(Digits, s[Len(s)]) - 1)
int(v) ==
    IF IsInt(v) THEN [ok |-> TRUE, val |-> v.int]
    ELSE LET t == strip(v.str)
             signed == t # <<>> /\ Head(t) \in {"+", "-"}
             d == IF signed THEN Tail(t) ELSE t
         IN  IF d # <<>> /\ \A i \in 1..Len(d) : IsDigit(d[i])
             THEN [ok |-> TRUE,
                   val |-> IF signed /\ Head(t) = "-" THEN 0 - DigitsValue(d)
                           ELSE DigitsValue(d)]
             ELSE [ok |-> FALSE, val |-> 0]

----------------------------------------------------------------------------
(* The re module, as far as the two patterns of the code need it.  A       *)
(* position is the number of characters consumed; each operator maps the   *)
(* set of positions a match can have reached to the set it can reach next. *)

\* One character c (lower case), under re.IGNORECASE.
Lit(s, P, c) == {p + 1 : p \in {q \in P : q < Len(s) /\ LowerChar(s[q + 1]) = c}}

\* The characters of w one after another.
RECURSIVE LitSeq(_, _, _)
LitSeq(s, P, w) == IF w = <<>> THEN P ELSE LitSeq(s, Lit(s, P, Head(w)), Tail(w))

\* One character of the class cls (a set of characters).
One(s, P, cls) == {p + 1 : p \in {q \in P : q < Len(s) /\ s[q + 1] \in cls}}

\* cls*: any number of characters of the class.
Star(s, P, cls) ==
    {q \in 0..Len(s) : \E p \in P : p <= q /\ \A i \in (p + 1)..q : s[i] \in cls}

\* [\w\-_:;\(\)/\.<>] and [\w\-_:;\(\)/<>]
DoiChars == WordChars \cup {"-", "_", ":", ";", "(", ")", "/", ".", "<", ">"}
DoiLastChars == WordChars \cup {"-", "_", ":", ";", "(", ")", "/", "<", ">"}

\* (\(?[Dd][Oo][Ii](\s)*\)?:?(\s)*)
DoiPrefixA(s) ==
    LET p1 == {0} \cup Lit(s, {0}, "(")
        p2 == LitSeq(s, p1, <<"d", "o", "i">>)
        p3 == Star(s, p2, SpaceChars)
        p4 == p3 \cup Lit(s, p3, ")")
        p5 == p4 \cup Lit(s, p4, ":")
    IN  Star(s, p5, SpaceChars)

\* (https?://(dx\.)?doi\.org\/)
DoiPrefixB(s) ==
    LET p1 == LitSeq(s, {0}, <<"h", "t", "t", "p">>)
        p2 == p1 \cup Lit(s, p1, "s")
        p3 == LitSeq(s, p2, <<":", "/", "/">>)
        p4 == p3 \cup LitSeq(s, p3, <<"d", "x", ".">>)
    IN  LitSeq(s, p4, <<"d", "o", "i", ".", "o", "r", "g", "/">>)

\* The positions at which pattern.match(doi_id) can end: the optional prefix,
\* then 10. + four digits + / or %2f + one or more DoiChar + one DoiLastChar.
\* match() anchors the pattern at the start of the string and not at its end.
DoiMatchEnds(s) ==
    LET p0 == {0} \cup DoiPrefixA(s) \cup DoiPrefixB(s)
        p1 == LitSeq(s, p0, <<"1", "0", ".">>)
        d == Range(Digits)
        p2 == One(s, One(s, One(s, One(s, p1, d), d), d), d)
        p3 == Lit(s, p2, "/") \cup LitSeq(s, p2, <<"%", "2", "f">>)
        p4 == Star(s, One(s, p3, DoiChars), DoiChars)
    IN  One(s, p4, DoiLastChars)

\* bool(_doi_normalization(doi_id)): a match object is true, None is false.
_doi_normalization(doi_id) == DoiMatchEnds(doi_id.str) # {}

\* not bool(re.compile(r'[^A-Z. ]').search(author_name))
_verify_author_name_initials(author_name) ==
    ~ \E i \in 1..Len(author_name) :
          ~ (IsUpper(author_name[i]) \/ author_name[i] \in {".", " "})

----------------------------------------------------------------------------
(* The outcome of a call: self.obj after it, what it returned and what it  *)
(* raised.                                                                 *)

Returns(o, v) == [obj |-> o, ret |-> v, exc |-> ""]
Raises(o, e) == [obj |-> o, ret |-> None, exc |-> e]

\* self.obj[field].append(x): a dict has no append, and the call raises
\* AttributeError with self.obj as it is.
append(o, field, x) ==
    IF IsList(o[field])
    THEN Returns(SetItem(o, field, PyList(Append(o[field].list, x))), None)
    ELSE Raises(o, "AttributeError")

\* extend assigning the new list to the key instead of extending the old one.
MutExtendReplaces(o, field, xs) == Returns(SetItem(o, field, PyList(xs)), None)
\* self.obj[field].extend(xs)
extend(o, field, xs) ==
    IF IsList(o[field])
    THEN Returns(SetItem(o, field, PyList(o[field].list \o xs)), None)
    ELSE Raises(o, "AttributeError")

\* A call that ran `first` and, if that raised nothing, goes on to `o2`.
Then(first, o2) == IF first.exc = "" THEN Returns(o2, None) ELSE first

----------------------------------------------------------------------------
(* LiteratureBuilder.                                                      *)

\* _ensure_field without its test: the default is stored on every call.
MutEnsureOverwrites(o, field_name, value) == SetItem(o, field_name, value)
_ensure_field(o, field_name, value) ==
    IF field_name \notin DOMAIN o THEN SetItem(o, field_name, value) ELSE o

\* _get_source with `if source:` for `if source is not None:`.
MutGetSourceTruthy(src) == IF src # None /\ src # PyStr("") THEN src ELSE source
_get_source(src) == IF src # None THEN src ELSE source

\* add_abstract that also marks the record citeable.
MutAbstractSetsCiteable(o, abstract, src) ==
    LET r == append(_ensure_field(o, "abstracts", PyList(<<>>)), "abstracts",
                    PyDict([value |-> PyStr(strip(abstract.str)),
                            source |-> _get_source(src)]))
    IN  Then(r, SetItem(r.obj, "citeable", PyBool(TRUE)))
add_abstract(o, abstract, src) ==
    append(_ensure_field(o, "abstracts", PyList(<<>>)), "abstracts",
           PyDict([value |-> PyStr(strip(abstract.str)),
                   source |-> _get_source(src)]))

\* add_arxiv_eprint without its last statement.
MutEprintNotCiteable(o, arxiv_id, arxiv_categories) ==
    append(_ensure_field(o, "arxiv_eprints", PyList(<<>>)), "arxiv_eprints",
           PyDict([value |-> arxiv_id, categories |-> arxiv_categories]))
add_arxiv_eprint(o, arxiv_id, arxiv_categories) ==
    LET r == append(_ensure_field(o, "arxiv_eprints", PyList(<<>>)), "arxiv_eprints",
                    PyDict([value |-> arxiv_id, categories |-> arxiv_categories]))
    IN  Then(r, SetItem(r.obj, "citeable", PyBool(TRUE)))

\* add_doi with the flag recomputed from the match: a rejected doi clears it.
MutDoiResetsCiteable(o, doi, src) ==
    LET o1 == _ensure_field(o, "dois", PyList(<<>>))
    IN  IF _doi_normalization(doi)
        THEN LET r == append(o1, "dois",
                             PyDict([value |-> doi, source |-> _get_source(src)]))
             IN  Then(r, SetItem(r.obj, "citeable", PyBool(TRUE)))
        ELSE Returns(SetItem(o1, "citeable", PyBool(FALSE)), None)
\* add_doi with the flag set outside the test of the match.
MutDoiCiteableOnReject(o, doi, src) ==
    LET o1 == _ensure_field(o, "dois", PyList(<<>>))
        r == IF _doi_normalization(doi)
             THEN append(o1, "dois",
                         PyDict([value |-> doi, source |-> _get_source(src)]))
             ELSE Returns(o1, None)
    IN  Then(r, SetItem(r.obj, "citeable", PyBool(TRUE)))
\* add_doi ensuring the field only when the doi matches.
MutDoiEnsuresOnAccept(o, doi, src) ==
    IF _doi_normalization(doi)
    THEN LET r == append(_ensure_field(o, "dois", PyList(<<>>)), "dois",
                         PyDict([value |-> doi, source |-> _get_source(src)]))
         IN  Then(r, SetItem(r.obj, "citeable", PyBool(TRUE)))
    ELSE Returns(o, None)
add_doi(o, doi, src) ==
    LET o1 == _ensure_field(o, "dois", PyList(<<>>))
    IN  IF _doi_normalization(doi)
        THEN LET r == append(o1, "dois",
                             PyDict([value |-> doi, source |-> _get_source(src)]))
             IN  Then(r, SetItem(r.obj, "citeable", PyBool(TRUE)))
        ELSE Returns(o1, None)

add_author(o, author) ==
    append(_ensure_field(o, "authors", PyList(<<>>)), "authors", author)

\* The normalisation with the spaces of name[1] kept.
MutNormalizeKeepsSpaces(author_name) == join(<<",", " ">>, split(author_name, ","))
\* name = author_name.split(','); name[1] = name[1].replace(' ', '') when
\* there is a name[1] and it verifies as initials; ', '.join(name)
_normalize_author_name_with_comma(author_name) ==
    LET name == split(author_name, ",")
        name1 == IF Len(name) > 1 /\ _verify_author_name_initials(name[2])
                 THEN [name EXCEPT ![2] = remove(name[2], " ")]
                 ELSE name
    IN  join(<<",", " ">>, name1)

\* {'value': affiliation} for affiliation in affiliations
RECURSIVE AffiliationDicts(_)
AffiliationDicts(affs) ==
    IF affs = <<>> THEN <<>>
    ELSE <<PyDict([value |-> Head(affs)])>> \o AffiliationDicts(Tail(affs))

\* author['affiliations'].append(<generator expression>): the list gets one
\* element, the generator object itself.
make_author_affiliations(author, affiliations) ==
    IF affiliations # None
    THEN LET a1 == _ensure_field(author, "affiliations", PyList(<<>>))
             gen == PyGenerator(AffiliationDicts(affiliations.list))
         IN  SetItem(a1, "affiliations", PyList(Append(a1["affiliations"].list, gen)))
    ELSE author

\* make_author with `if supervisor:` for `if supervisor is not None:`.
MutMakeAuthorTruthySupervisor(o, full_name, affiliations, supervisor) ==
    LET a0 == [k \in {"full_name"} |->
                   PyStr(_normalize_author_name_with_comma(full_name.str))]
        a1 == make_author_affiliations(a0, affiliations)
        a2 == IF supervisor = PyBool(TRUE)
              THEN SetItem(a1, "inspire_roles", PyList(<<PyStr("supervisor")>>))
              ELSE a1
    IN  Returns(o, PyDict(a2))
make_author(o, full_name, affiliations, supervisor) ==
    LET a0 == [k \in {"full_name"} |->
                   PyStr(_normalize_author_name_with_comma(full_name.str))]
        a1 == make_author_affiliations(a0, affiliations)
        a2 == IF supervisor # None
              THEN SetItem(a1, "inspire_roles", PyList(<<PyStr("supervisor")>>))
              ELSE a1
    IN  Returns(o, PyDict(a2))

\* [{'term': category, 'source': ...} for category in subject_terms]
RECURSIVE CategoryDicts(_, _)
CategoryDicts(terms, src) ==
    IF terms = <<>> THEN <<>>
    ELSE <<PyDict([term |-> Head(terms), source |-> src])>>
             \o CategoryDicts(Tail(terms), src)

add_inspire_categories(o, subject_terms, src) ==
    extend(_ensure_field(o, "inspire_categories", PyList(<<>>)), "inspire_categories",
           CategoryDicts(subject_terms.list, _get_source(src)))

add_private_notes(o, private_notes, src) ==
    append(_ensure_field(o, "_private_notes", PyList(<<>>)), "_private_notes",
           PyDict([value |-> private_notes, source |-> _get_source(src)]))

\* The keys add_publication_info copies, in the order of its loop.
PubInfoKeys == <<"cnum", "artid", "page_end", "page_start",
                 "journal_issue", "journal_title", "journal_volume", "year">>

\* publication_item after the loop over the keys and the page count; a is
\* locals(): the eight arguments by name, None where not supplied.
publication_item(a) ==
    LET copied == [k \in {x \in Range(PubInfoKeys) : a[x] # None} |-> a[k]]
    IN  IF Truthy(a["page_start"]) /\ Truthy(a["page_end"])
           /\ int(a["page_end"]).ok /\ int(a["page_start"]).ok
        THEN SetItem(copied, "number_of_pages",
                     PyInt(int(a["page_end"]).val - int(a["page_start"]).val + 1))
        ELSE copied

\* all([key in self.obj['publication_info'] for key in (...)]): membership of
\* the key, a str, in the list of entries.
has_pub_info(o) ==
    \A key \in {"year", "journal_issue", "journal_volume"} :
        Contains(o["publication_info"], PyStr(key))

has_page_or_artid(o) ==
    \E key \in {"page_start", "page_end", "artid"} :
        Contains(o["publication_info"], PyStr(key))

add_publication_info(o, a) ==
    LET r == append(_ensure_field(o, "publication_info", PyList(<<>>)),
                    "publication_info", PyDict(publication_item(a)))
    IN  IF r.exc = "" /\ has_pub_info(r.obj) /\ has_page_or_artid(r.obj)
        THEN Returns(SetItem(r.obj, "citeable", PyBool(TRUE)), None)
        ELSE r

add_imprint_date(o, imprint_date) ==
    append(_ensure_field(o, "imprints", PyList(<<>>)), "imprints",
           PyDict([date |-> imprint_date]))

\* The default is {} and a dict has no append.
add_preprint_date(o, preprint_date) ==
    append(_ensure_field(o, "preprint_date", PyDict(EmptyMap)), "preprint_date",
           PyDict([date |-> preprint_date]))

\* thesis_item; a is locals(): the four arguments by name, None where not
\* supplied.
thesis_item(a) ==
    LET lowered == [k \in {x \in {"defense_date", "degree_type", "date"} : a[x] # None}
                        |-> PyStr(lower(a[k].str))]
    IN  IF a["institution"] # None
        THEN SetItem(lowered, "institutions",
                     PyList(<<PyDict([name |-> a["institution"]])>>))
        ELSE lowered

\* add_thesis updating the dict it finds instead of replacing it.
MutThesisMerges(o, a) ==
    LET old == IF "thesis_info" \in DOMAIN o THEN o["thesis_info"].dict ELSE EmptyMap
        new == thesis_item(a)
    IN  Returns(SetItem(o, "thesis_info",
                        PyDict([k \in DOMAIN old \cup DOMAIN new |->
                                    IF k \in DOMAIN new THEN new[k] ELSE old[k]])),
                None)
add_thesis(o, a) ==
    Returns(SetItem(_ensure_field(o, "thesis_info", PyDict(EmptyMap)),
                    "thesis_info", PyDict(thesis_item(a))), None)

add_accelerator_experiment(o, experiment) ==
    append(_ensure_field(o, "accelerator_experiments", PyList(<<>>)),
           "accelerator_experiments", PyDict([legacy_name |-> experiment]))

add_language(o, language) ==
    append(_ensure_field(o, "languages", PyList(<<>>)), "languages", language)

add_license_url(o, license_url) ==
    append(_ensure_field(o, "license", PyList(<<>>)), "license",
           PyDict([url |-> license_url]))

add_public_note(o, public_notes, src) ==
    append(_ensure_field(o, "public_notes", PyList(<<>>)), "public_notes",
           PyDict([value |-> public_notes, source |-> _get_source(src)]))

add_title(o, title, src) ==
    append(_ensure_field(o, "titles", PyList(<<>>)), "titles",
           PyDict([title |-> title, source |-> _get_source(src)]))

add_title_translation(o, title, language, src) ==
    append(_ensure_field(o, "title_translations", PyList(<<>>)), "title_translations",
           PyDict([title |-> title, language |-> language,
                   source |-> _get_source(src)]))

add_url(o, url) ==
    append(_ensure_field(o, "urls", PyList(<<>>)), "urls", PyDict([value |-> url]))

\* [{'value': report_number.get('report_number', ''), 'source': ...}
\*  for report_number in report_numbers]
RECURSIVE ReportNumberDicts(_, _)
ReportNumberDicts(rns, src) ==
    IF rns = <<>> THEN <<>>
    ELSE <<PyDict([value |-> IF "report_number" \in DOMAIN Head(rns).dict
                             THEN Head(rns).dict["report_number"]
                             ELSE PyStr(""),
                   source |-> src])>>
             \o ReportNumberDicts(Tail(rns), src)

add_report_numbers(o, report_numbers, src) ==
    extend(_ensure_field(o, "report_numbers", PyList(<<>>)), "report_numbers",
           ReportNumberDicts(report_numbers.list, _get_source(src)))

add_collaboration(o, collaboration) ==
    append(_ensure_field(o, "collaborations", PyList(<<>>)), "collaborations",
           PyDict([value |-> collaboration]))

\* acquisition_source; a is locals(): the five arguments by name, None where
\* not supplied.
acquisition_source(a) ==
    LET base == [submission_number |-> PyStr(str(a["submission_number"].int)),
                 source |-> _get_source(a["source"])]
    IN  [k \in DOMAIN base \cup {x \in {"email", "method", "orcid"} : a[x] # None} |->
             IF k \in DOMAIN base THEN base[k] ELSE a[k]]

add_acquisition_source(o, a) ==
    Returns(SetItem(_ensure_field(o, "acquisition_source", PyDict(EmptyMap)),
                    "acquisition_source", PyDict(acquisition_source(a))), None)

add_document_type(o, document_type) ==
    append(_ensure_field(o, "document_type", PyList(<<>>)), "document_type",
           document_type)

----------------------------------------------------------------------------
(* validate and the collaborators it calls.                                *)

\* What load_schema and jsonschema_validate can do with a schema name and a
\* dict: return, or raise one of their errors.
GatewayOutcomes == {"", "SchemaNotFound", "SchemaError", "ValidationError"}

\* validate asking for the '$schema' key whatever schema_name is.
MutValidateAlwaysNeedsKey(data, schema_name, outcome) ==
    IF "$schema" \notin DOMAIN data
    THEN [exc |-> "SchemaKeyNotFound", loaded |-> None]
    ELSE [exc |-> outcome,
          loaded |-> IF schema_name = None THEN data["$schema"] ELSE schema_name]
\* validate(data, schema_name): SchemaKeyNotFound before anything is loaded,
\* else the collaborators' outcome for the schema name resolved.
validate(data, schema_name, outcome) ==
    IF schema_name = None /\ "$schema" \notin DOMAIN data
    THEN [exc |-> "SchemaKeyNotFound", loaded |-> None]
    ELSE [exc |-> outcome,
          loaded |-> IF schema_name = None THEN data["$schema"] ELSE schema_name]

\* validate(self.obj, 'hep')
validate_object(o, outcome) == validate(o, PyStr("hep"), outcome)

----------------------------------------------------------------------------
(* The arguments the calls are made with.                                  *)

\* source of __init__
DefaultSources == {PyStr("arXiv")}
\* the source argument of a call: not passed, empty, or a name
SourceArgs == {None, PyStr(""), PyStr("desy")}

Abstracts == {PyStr(<<" ", "a", " ", "b", "\n">>), PyStr(<<"c">>)}
Texts == {PyStr("t1"), PyStr("t2")}

ArxivIds == {PyStr("1234.5678"), PyStr("hep-th/9901001")}
ArxivCategories == {PyList(<<PyStr("hep-th")>>)}

DoiPlain == <<"1", "0", ".", "1", "2", "3", "4", "/", "a", "b">>
DoiArgs ==
    {PyStr(DoiPlain),
     PyStr(<<"d", "o", "i", ":">> \o DoiPlain),
     PyStr(<<"n", "o", "t", "-", "a", "-", "d", "o", "i">>),
     PyStr(<<"1", "0", ".", "1", "2", "3", "/", "a", "b">>)}

AuthorNames ==
    {PyStr(<<"S", "m", ",", " ", "J", ".", " ", "K", ".">>),
     PyStr(<<"S", "m", ",", " ", "J", "o">>)}
AffiliationArgs == {None, PyList(<<PyStr("CERN"), PyStr("DESY")>>)}
SupervisorArgs == {None, PyBool(FALSE), PyBool(TRUE)}
\* authors handed to add_author that make_author did not build
AuthorArgs == {PyDict([full_name |-> PyStr(<<"X", ",", " ", "Y", ".">>)])}

TermLists == {PyList(<<>>), PyList(<<PyStr("Theory-HEP"), PyStr("Lattice")>>)}
ReportNumberLists ==
    {PyList(<<>>),
     PyList(<<PyDict([report_number |-> PyStr("CERN-1")]), PyDict(EmptyMap)>>)}

NoPubInfo == [k \in Range(PubInfoKeys) |-> None]
Chars1 == <<"1">>
Chars10 == <<"1", "0">>
PubInfoArgs ==
    {NoPubInfo,
     [NoPubInfo EXCEPT !["year"] = PyInt(2016), !["journal_issue"] = PyStr(Chars1),
                       !["journal_volume"] = PyStr(Chars10),
                       !["artid"] = PyStr(Chars1)],
     [NoPubInfo EXCEPT !["year"] = PyInt(2016), !["journal_issue"] = PyStr(Chars1),
                       !["journal_volume"] = PyStr(Chars10),
                       !["page_start"] = PyStr(Chars1),
                       !["page_end"] = PyStr(Chars10)],
     [NoPubInfo EXCEPT !["page_start"] = PyStr(<<"x">>), !["page_end"] = PyStr(Chars10)],
     [NoPubInfo EXCEPT !["page_start"] = PyStr(<<"0">>), !["page_end"] = PyStr(Chars10)],
     [NoPubInfo EXCEPT !["page_start"] = PyInt(0), !["page_end"] = PyInt(9)],
     [NoPubInfo EXCEPT !["page_end"] = PyStr(Chars10), !["cnum"] = PyStr(Chars1),
                       !["journal_title"] = PyStr(Chars1)]}

NoThesis == [k \in {"defense_date", "degree_type", "institution", "date"} |-> None]
ThesisArgs ==
    {NoThesis,
     [NoThesis EXCEPT !["degree_type"] = PyStr(<<"P", "h", "D">>)],
     [NoThesis EXCEPT !["institution"] = PyStr("X")],
     [NoThesis EXCEPT !["defense_date"] = PyStr(<<"2", "0", "1", "6">>),
                      !["date"] = PyStr(<<"2", "0", "1", "7">>),
                      !["degree_type"] = PyStr(<<"M", "S", "c">>),
                      !["institution"] = PyStr("Y")]}

AcquisitionArgs ==
    {[submission_number |-> PyInt(12), email |-> None, source |-> None,
      method |-> None, orcid |-> None],
     [submission_number |-> PyInt(7), email |-> PyStr("a@b.c"), source |-> None,
      method |-> PyStr("submitter"), orcid |-> None],
     [submission_number |-> PyInt(305), email |-> None, source |-> PyStr(""),
      method |-> None, orcid |-> PyStr("0000-0001")]}

\* the names validate is called with, and the dicts besides self.obj
SchemaNames == {None, PyStr("hep")}

----------------------------------------------------------------------------
(* The state machine: one builder, constructed and then called.            *)

\* The methods that append one entry to a sequence field, and the field.
Appenders ==
    [add_abstract |-> "abstracts", add_title |-> "titles",
     add_title_translation |-> "title_translations", add_author |-> "authors",
     add_url |-> "urls", add_language |-> "languages", add_license_url |-> "license",
     add_collaboration |-> "collaborations", add_document_type |-> "document_type",
     add_accelerator_experiment |-> "accelerator_experiments",
     add_imprint_date |-> "imprints", add_public_note |-> "public_notes",
     add_private_notes |-> "_private_notes", add_arxiv_eprint |-> "arxiv_eprints",
     add_publication_info |-> "publication_info"]
AppenderFields == {Appenders[m] : m \in DOMAIN Appenders}

\* nappend after one more call of method op.
Counted(op) ==
    IF op \in DOMAIN Appenders
    THEN [nappend EXCEPT ![Appenders[op]] = @ + 1]
    ELSE nappend

Init ==
    /\ obj = EmptyMap
    /\ source \in DefaultSources
    /\ ret = None
    /\ exc = ""
    /\ last = [op |-> "__init__", a |-> [source |-> source]]
    /\ pre = EmptyMap
    /\ loaded = None
    /\ nappend = [f \in AppenderFields |-> 0]
    /\ ncalls = 0

\* One call of a builder method that does not reach load_schema.
Call(op, a, r) ==
    /\ ncalls < MaxCalls
    /\ obj' = r.obj
    /\ ret' = r.ret
    /\ exc' = r.exc
    /\ last' = [op |-> op, a |-> a]
    /\ pre' = obj
    /\ loaded' = None
    /\ nappend' = Counted(op)
    /\ ncalls' = ncalls + 1
    /\ UNCHANGED source

\* One call that goes through validate.
CallValidate(op, a, r) ==
    /\ ncalls < MaxCalls
    /\ obj' = obj
    /\ ret' = None
    /\ exc' = r.exc
    /\ last' = [op |-> op, a |-> a]
    /\ pre' = obj
    /\ loaded' = r.loaded
    /\ nappend' = nappend
    /\ ncalls' = ncalls + 1
    /\ UNCHANGED source

AddAbstract ==
    \E x \in Abstracts, s \in SourceArgs :
        Call("add_abstract", [abstract |-> x, source |-> s], add_abstract(obj, x, s))

AddArxivEprint ==
    \E x \in ArxivIds, c \in ArxivCategories :
        Call("add_arxiv_eprint", [arxiv_id |-> x, arxiv_categories |-> c],
             add_arxiv_eprint(obj, x, c))

AddDoi ==
    \E x \in DoiArgs, s \in SourceArgs :
        Call("add_doi", [doi |-> x, source |-> s], add_doi(obj, x, s))

\* add_author is handed an author make_author has just returned, or another.
AddAuthor ==
    \E x \in AuthorArgs \cup (IF last.op = "make_author" THEN {ret} ELSE {}) :
        Call("add_author", [author |-> x], add_author(obj, x))

MakeAuthor ==
    \E n \in AuthorNames, f \in AffiliationArgs, v \in SupervisorArgs :
        Call("make_author", [full_name |-> n, affiliations |-> f, supervisor |-> v],
             make_author(obj, n, f, v))

AddInspireCategories ==
    \E x \in TermLists, s \in SourceArgs :
        Call("add_inspire_categories", [subject_terms |-> x, source |-> s],
             add_inspire_categories(obj, x, s))

AddPrivateNotes ==
    \E x \in Texts, s \in SourceArgs :
        Call("add_private_notes", [private_notes |-> x, source |-> s],
             add_private_notes(obj, x, s))

AddPublicationInfo ==
    \E a \in PubInfoArgs :
        Call("add_publication_info", a, add_publication_info(obj, a))

AddImprintDate ==
    \E x \in Texts :
        Call("add_imprint_date", [imprint_date |-> x], add_imprint_date(obj, x))

AddPreprintDate ==
    \E x \in Texts :
        Call("add_preprint_date", [preprint_date |-> x], add_preprint_date(obj, x))

AddThesis ==
    \E a \in ThesisArgs : Call("add_thesis", a, add_thesis(obj, a))

AddAcceleratorExperiment ==
    \E x \in Texts :
        Call("add_accelerator_experiment", [experiment |-> x],
             add_accelerator_experiment(obj, x))

AddLanguage ==
    \E x \in Texts : Call("add_language", [language |-> x], add_language(obj, x))

AddLicenseUrl ==
    \E x \in Texts :
        Call("add_license_url", [license_url |-> x], add_license_url(obj, x))

AddPublicNote ==
    \E x \in Texts, s \in SourceArgs :
        Call("add_public_note", [public_notes |-> x, source |-> s],
             add_public_note(obj, x, s))

AddTitle ==
    \E x \in Texts, s \in SourceArgs :
        Call("add_title", [title |-> x, source |-> s], add_title(obj, x, s))

AddTitleTranslation ==
    \E x \in Texts, l \in {PyStr("fr")}, s \in SourceArgs :
        Call("add_title_translation", [title |-> x, language |-> l, source |-> s],
             add_title_translation(obj, x, l, s))

AddUrl ==
    \E x \in Texts : Call("add_url", [url |-> x], add_url(obj, x))

AddReportNumbers ==
    \E x \in ReportNumberLists, s \in SourceArgs :
        Call("add_report_numbers", [report_numbers |-> x, source |-> s],
             add_report_numbers(obj, x, s))

AddCollaboration ==
    \E x \in Texts :
        Call("add_collaboration", [collaboration |-> x], add_collaboration(obj, x))

AddAcquisitionSource ==
    \E a \in AcquisitionArgs :
        Call("add_acquisition_source", a, add_acquisition_source(obj, a))

AddDocumentType ==
    \E x \in Texts :
        Call("add_document_type", [document_type |-> x], add_document_type(obj, x))

ValidateObject ==
    \E outcome \in GatewayOutcomes :
        CallValidate("validate_object", [outcome |-> outcome],
                     validate_object(obj, outcome))

\* validate called directly, on the record as it is or on the record with a
\* '$schema' key.
Validate ==
    \E data \in {obj, SetItem(obj, "$schema", PyStr("authors"))},
       schema_name \in SchemaNames, outcome \in GatewayOutcomes :
        CallValidate("validate", [data |-> data, schema_name |-> schema_name],
                     validate(data, schema_name, outcome))

Next ==
    \/ AddAbstract
    \/ AddArxivEprint
    \/ AddDoi
    \/ AddAuthor
    \/ MakeAuthor
    \/ AddInspireCategories
    \/ AddPrivateNotes
    \/ AddPublicationInfo
    \/ AddImprintDate
    \/ AddPreprintDate
    \/ AddThesis
    \/ AddAcceleratorExperiment
    \/ AddLanguage
    \/ AddLicenseUrl
    \/ AddPublicNote
    \/ AddTitle
    \/ AddTitleTranslation
    \/ AddUrl
    \/ AddReportNumbers
    \/ AddCollaboration
    \/ AddAcquisitionSource
    \/ AddDocumentType
    \/ ValidateObject
    \/ Validate

Spec == Init /\ [][Next]_vars

----------------------------------------------------------------------------
(* make_author alone, on every name of up to MaxNameLen characters.  It    *)
(* reads neither self.obj nor self.source, so it is called once, on a      *)
(* builder just constructed.                                               *)

NameAlphabet == {"S", "m", ",", " ", "."}
Names == UNION {[1..n -> NameAlphabet] : n \in 0..MaxNameLen}
AllAffiliationArgs ==
    {None, PyList(<<>>), PyList(<<PyStr("CERN")>>),
     PyList(<<PyStr("CERN"), PyStr("DESY")>>)}

MakeAuthorAny ==
    /\ ncalls = 0
    /\ \E n \in {PyStr(x) : x \in Names} \cup AuthorNames,
          f \in AllAffiliationArgs, v \in SupervisorArgs :
           Call("make_author",
                [full_name |-> n, affiliations |-> f, supervisor |-> v],
                make_author(obj, n, f, v))

NextAuthor == MakeAuthorAny

SpecAuthor == Init /\ [][NextAuthor]_vars

----------------------------------------------------------------------------
(* add_doi alone, on every string made of a prefix, a registrant head, a   *)
(* separator and a suffix of up to MaxSuffixLen characters.  The verdict   *)
(* of the pattern depends on the string alone, so add_doi is called once,  *)
(* on a builder just constructed.                                          *)

DoiPrefixes ==
    {<<>>,
     <<"d", "o", "i", ":">>,
     <<"(", "d", "o", "i", ")">>,
     <<"h", "t", "t", "p", ":", "/", "/", "d", "o", "i", ".", "o", "r", "g", "/">>,
     <<"h", "t", "t", "p", "s", ":", "/", "/", "d", "x", ".",
       "d", "o", "i", ".", "o", "r", "g", "/">>}
DoiHeads == {<<"1", "0", ".", "1", "2", "3", "4">>, <<"1", "0", ".", "1", "2", "3">>}
DoiSeparators == {<<"/">>, <<"%", "2", "f">>}
DoiSuffixAlphabet == {"a", "b", "c", "."}
DoiSuffixes == UNION {[1..n -> DoiSuffixAlphabet] : n \in 0..MaxSuffixLen}
AllDoiArgs ==
    {PyStr(p \o h \o sep \o x) :
        p \in DoiPrefixes, h \in DoiHeads, sep \in DoiSeparators, x \in DoiSuffixes}

AddDoiAny ==
    /\ ncalls = 0
    /\ \E x \in AllDoiArgs :
           Call("add_doi", [doi |-> x, source |-> None], add_doi(obj, x, None))

NextDoi == AddDoiAny

SpecDoi == Init /\ [][NextDoi]_vars

----------------------------------------------------------------------------
(* The properties checked.                                                 *)

\* The record o has citeable set to True.
Citeable(o) == "citeable" \in DOMAIN o /\ o["citeable"] = PyBool(TRUE)

\* The entries the record o holds under a sequence field: none when the key
\* is absent.
Entries(o, field) == IF field \in DOMAIN o THEN o[field].list ELSE <<>>

\* The source a call stores: its own source argument when one is passed, the
\* builder's otherwise.
Resolved(src) == IF src = None THEN source ELSE src

\* The doi of the last call matches the pattern of add_doi.
LastDoiAccepted == _doi_normalization(last.a.doi)

\* C1: once the record's citeable flag is True it is True after every later
\* call on the same builder: no step takes it away or changes its value.
C1_CiteableIsPermanent == [][Citeable(obj) => Citeable(obj')]_vars

\* A call other than the three that set the flag was made on a record that
\* was citeable, and a rejected add_doi was.
C1_Witness ==
    /\ Citeable(pre)
    /\ last.op = "add_doi"
    /\ ~ LastDoiAccepted
    /\ Citeable(obj)

\* C2: add_doi with a doi the pattern accepts appends exactly one entry
\* {value: doi, source: resolved source} to dois and leaves citeable True;
\* with a doi the pattern rejects it appends nothing, raises nothing and
\* leaves citeable as it was (absent stays absent, True stays True).
C2_AddDoi ==
    last.op = "add_doi" =>
        /\ exc = ""
        /\ IF LastDoiAccepted
           THEN /\ Entries(obj, "dois") =
                       Append(Entries(pre, "dois"),
                              PyDict([value |-> last.a.doi,
                                      source |-> Resolved(last.a.source)]))
                /\ Citeable(obj)
           ELSE /\ Entries(obj, "dois") = Entries(pre, "dois")
                /\ ("citeable" \in DOMAIN obj) = ("citeable" \in DOMAIN pre)
                /\ Citeable(obj) = Citeable(pre)

\* "not-a-doi" was handed to add_doi on a record that held a field and no
\* citeable key: the key is still absent.
C2_Witness ==
    /\ last.op = "add_doi"
    /\ last.a.doi = PyStr(<<"n", "o", "t", "-", "a", "-", "d", "o", "i">>)
    /\ "citeable" \notin DOMAIN pre
    /\ DOMAIN pre # {}
    /\ "citeable" \notin DOMAIN obj

\* The arguments of the last add_publication_info call include year,
\* journal_issue and journal_volume and one of page_start, page_end, artid.
LastPubInfoComplete ==
    /\ \A k \in {"year", "journal_issue", "journal_volume"} : last.a[k] # None
    /\ \E k \in {"page_start", "page_end", "artid"} : last.a[k] # None

\* C3: after add_publication_info with year, journal_issue and journal_volume
\* and at least one of page_start, page_end, artid supplied, citeable is True.
C3_CompletePubInfoIsCiteable ==
    (last.op = "add_publication_info" /\ LastPubInfoComplete) => Citeable(obj)

\* C4: add_arxiv_eprint appends exactly one entry {value: id, categories:
\* categories} as the last element of arxiv_eprints and leaves citeable True,
\* whatever else the record holds.
C4_AddArxivEprint ==
    last.op = "add_arxiv_eprint" =>
        /\ exc = ""
        /\ Entries(obj, "arxiv_eprints") =
               Append(Entries(pre, "arxiv_eprints"),
                      PyDict([value |-> last.a.arxiv_id,
                              categories |-> last.a.arxiv_categories]))
        /\ Citeable(obj)

\* A second e-print was added to a record that held another one.
C4_Witness ==
    /\ last.op = "add_arxiv_eprint"
    /\ Len(Entries(obj, "arxiv_eprints")) = 2
    /\ obj["arxiv_eprints"].list[1] # obj["arxiv_eprints"].list[2]
    /\ Citeable(obj)

\* C5: for each single-entry appender, a call makes its field exactly one
\* entry longer with the previous sequence an unchanged prefix, no other call
\* changes the field, and after N calls of the appender the field holds
\* exactly N entries.
C5_AppendersAppend ==
    \A m \in DOMAIN Appenders :
        LET field == Appenders[m]
            old == Entries(pre, field)
            new == Entries(obj, field)
        IN  /\ Len(new) = nappend[field]
            /\ (nappend[field] > 0) = (field \in DOMAIN obj)
            /\ IF last.op = m
               THEN /\ exc = ""
                    /\ Len(new) = Len(old) + 1
                    /\ SubSeq(new, 1, Len(old)) = old
               ELSE new = old

\* add_abstract was called twice with different text: both entries are
\* there, the first call's first.
C5_Witness ==
    /\ last.op = "add_abstract"
    /\ nappend["abstracts"] = 2
    /\ Len(Entries(obj, "abstracts")) = 2
    /\ obj["abstracts"].list[1] = pre["abstracts"].list[1]
    /\ obj["abstracts"].list[1].dict["value"] # obj["abstracts"].list[2].dict["value"]

\* C6: add_preprint_date completes without raising and appends {date: date}
\* to the preprint_date container, on a fresh builder too.
C6_AddPreprintDate ==
    last.op = "add_preprint_date" =>
        /\ exc = ""
        /\ "preprint_date" \in DOMAIN obj
        /\ IsList(obj["preprint_date"])
        /\ obj["preprint_date"].list # <<>>
        /\ obj["preprint_date"].list[Len(obj["preprint_date"].list)] =
               PyDict([date |-> last.a.preprint_date])

\* The keys of the object a call with arguments a builds, given the keys that
\* are always there and the one argument stored under another name.
SuppliedKeys(a, always, renamed) ==
    always \cup {IF k \in DOMAIN renamed THEN renamed[k] ELSE k :
                     k \in {x \in DOMAIN a : x \notin always /\ a[x] # None}}

\* C7: add_thesis and add_acquisition_source are last-write-wins: after a
\* call the nested object is the one built from that call's arguments, with
\* exactly the keys that call supplied and nothing of an earlier call.
C7_LastWriteWins ==
    /\ last.op = "add_thesis" =>
           /\ obj["thesis_info"] = PyDict(thesis_item(last.a))
           /\ DOMAIN obj["thesis_info"].dict =
                  SuppliedKeys(last.a, {}, [institution |-> "institutions"])
           /\ last.a["institution"] # None =>
                  obj["thesis_info"].dict["institutions"] =
                      PyList(<<PyDict([name |-> last.a["institution"]])>>)
    /\ last.op = "add_acquisition_source" =>
           /\ obj["acquisition_source"] = PyDict(acquisition_source(last.a))
           /\ DOMAIN obj["acquisition_source"].dict =
                  SuppliedKeys(last.a, {"submission_number", "source"}, EmptyMap)

\* add_thesis(institution='X') after add_thesis(degree_type='PhD'): the
\* degree_type is gone.
C7_Witness ==
    /\ last.op = "add_thesis"
    /\ "thesis_info" \in DOMAIN pre
    /\ "degree_type" \in DOMAIN pre["thesis_info"].dict
    /\ last.a["degree_type"] = None
    /\ obj["thesis_info"] =
           PyDict([institutions |-> PyList(<<PyDict([name |-> PyStr("X")])>>)])

\* C8: make_author with a list of k affiliations returns an author whose
\* affiliations is a sequence of exactly k objects, the i-th {value:
\* affiliations[i]}; with affiliations absent there is no affiliations key.
C8_MakeAuthorAffiliations ==
    last.op = "make_author" =>
        IF last.a.affiliations = None
        THEN "affiliations" \notin DOMAIN ret.dict
        ELSE /\ "affiliations" \in DOMAIN ret.dict
             /\ IsList(ret.dict["affiliations"])
             /\ Len(ret.dict["affiliations"].list) = Len(last.a.affiliations.list)
             /\ \A i \in 1..Len(last.a.affiliations.list) :
                    ret.dict["affiliations"].list[i] =
                        PyDict([value |-> last.a.affiliations.list[i]])

\* The name s split at its first comma.
HasComma(s) == \E i \in 1..Len(s) : s[i] = ","
FirstComma(s) == CHOOSE i \in 1..Len(s) : s[i] = "," /\ \A j \in 1..(i - 1) : s[j] # ","
Surname(s) == SubSeq(s, 1, FirstComma(s) - 1)
Rest(s) == SubSeq(s, FirstComma(s) + 1, Len(s))
\* Only uppercase letters, '.' and spaces.
AllInitials(s) == \A i \in 1..Len(s) : IsUpper(s[i]) \/ s[i] = "." \/ s[i] = " "
NotSpace(c) == c # " "

\* C9: make_author returns the full name unchanged when it has no comma or
\* when the part after the first comma is not all initials.
C9_NonInitialsUnchanged ==
    (/\ last.op = "make_author"
     /\ (~ HasComma(last.a.full_name.str)
           \/ ~ AllInitials(Rest(last.a.full_name.str))))
        => ret.dict["full_name"] = last.a.full_name

\* C10: when the part of the name after its first comma is all initials,
\* make_author returns surname + ", " + that part without its spaces, and
\* normalising the returned name again returns it unchanged.
C10_InitialsNormalised ==
    (/\ last.op = "make_author"
     /\ HasComma(last.a.full_name.str)
     /\ AllInitials(Rest(last.a.full_name.str)))
        => /\ ret.dict["full_name"].str =
                  Surname(last.a.full_name.str) \o <<",", " ">>
                      \o SelectSeq(Rest(last.a.full_name.str), NotSpace)
           /\ _normalize_author_name_with_comma(ret.dict["full_name"].str) =
                  ret.dict["full_name"].str

\* "Sm, J. K." was normalised to "Sm, J.K.".
C10_Witness ==
    /\ last.op = "make_author"
    /\ last.a.full_name = PyStr(<<"S", "m", ",", " ", "J", ".", " ", "K", ".">>)
    /\ ret.dict["full_name"] = PyStr(<<"S", "m", ",", " ", "J", ".", "K", ".">>)

LastPagesParse ==
    /\ last.a["page_start"] # None
    /\ last.a["page_end"] # None
    /\ int(last.a["page_start"]).ok
    /\ int(last.a["page_end"]).ok

\* C12: the entry add_publication_info appends has number_of_pages =
\* int(page_end) - int(page_start) + 1 whenever both page bounds are supplied
\* and numerically parseable, a bound of zero included, and no
\* number_of_pages key otherwise; the call raises nothing.
C12_NumberOfPages ==
    last.op = "add_publication_info" =>
        LET entries == Entries(obj, "publication_info")
            item == entries[Len(entries)].dict
        IN  /\ exc = ""
            /\ entries # <<>>
            /\ IF LastPagesParse
               THEN /\ "number_of_pages" \in DOMAIN item
                    /\ item["number_of_pages"] =
                           PyInt(int(last.a["page_end"]).val
                                 - int(last.a["page_start"]).val + 1)
               ELSE "number_of_pages" \notin DOMAIN item

SourceFields ==
    [add_abstract |-> "abstracts", add_doi |-> "dois", add_title |-> "titles",
     add_title_translation |-> "title_translations",
     add_public_note |-> "public_notes", add_private_notes |-> "_private_notes",
     add_inspire_categories |-> "inspire_categories",
     add_report_numbers |-> "report_numbers"]

\* Every entry the last call created carries the source passed to the call,
\* or the builder's when none was passed.
StoredSourceResolved ==
    /\ last.op \in DOMAIN SourceFields =>
           LET old == Entries(pre, SourceFields[last.op])
               new == Entries(obj, SourceFields[last.op])
           IN  \A i \in (Len(old) + 1)..Len(new) :
                   new[i].dict["source"] = Resolved(last.a.source)
    /\ last.op = "add_acquisition_source" =>
           obj["acquisition_source"].dict["source"] = Resolved(last.a["source"])

\* C14: in every source-carrying method the source stored in each entry the
\* call creates is the per-call source when one is passed (the empty string
\* included) and the builder's default source otherwise; no call changes the
\* builder's default source.
C14_SourceResolution == [][source' = source /\ StoredSourceResolved']_vars

\* add_report_numbers stored two entries with the empty string passed as the
\* source, on a builder whose own source is not empty.
C14_Witness ==
    /\ last.op = "add_report_numbers"
    /\ last.a.source = PyStr("")
    /\ source # PyStr("")
    /\ Len(Entries(obj, "report_numbers")) = Len(Entries(pre, "report_numbers")) + 2
    /\ obj["report_numbers"].list[Len(obj["report_numbers"].list)].dict["source"]
           = PyStr("")

\* C15: add_report_numbers and add_inspire_categories extend their field by
\* one entry per input element, in input order, after the entries already
\* held; an empty input adds nothing and still ensures the field; the value of
\* a report-number entry is the input's report_number, the empty string when
\* it has none.
C15_ExtendPerElement ==
    /\ last.op = "add_report_numbers" =>
           LET old == Entries(pre, "report_numbers")
               new == Entries(obj, "report_numbers")
               inp == last.a.report_numbers.list
           IN  /\ "report_numbers" \in DOMAIN obj
               /\ Len(new) = Len(old) + Len(inp)
               /\ SubSeq(new, 1, Len(old)) = old
               /\ \A i \in 1..Len(inp) :
                      new[Len(old) + i].dict["value"] =
                          IF "report_number" \in DOMAIN inp[i].dict
                          THEN inp[i].dict["report_number"]
                          ELSE PyStr("")
    /\ last.op = "add_inspire_categories" =>
           LET old == Entries(pre, "inspire_categories")
               new == Entries(obj, "inspire_categories")
               inp == last.a.subject_terms.list
           IN  /\ "inspire_categories" \in DOMAIN obj
               /\ Len(new) = Len(old) + Len(inp)
               /\ SubSeq(new, 1, Len(old)) = old
               /\ \A i \in 1..Len(inp) : new[Len(old) + i].dict["term"] = inp[i]

\* add_report_numbers with two entries, the second without a report_number,
\* on a record that already held two.
C15_Witness ==
    /\ last.op = "add_report_numbers"
    /\ Len(Entries(pre, "report_numbers")) = 2
    /\ Len(Entries(obj, "report_numbers")) = 4
    /\ obj["report_numbers"].list[3].dict["value"] = PyStr("CERN-1")
    /\ obj["report_numbers"].list[4].dict["value"] = PyStr("")

\* The prefixes the claim allows in front of a DOI.
ClaimPrefixes ==
    DoiPrefixes \cup
    {<<"h", "t", "t", "p", "s", ":", "/", "/", "d", "o", "i", ".", "o", "r", "g", "/">>,
     <<"h", "t", "t", "p", ":", "/", "/", "d", "x", ".",
       "d", "o", "i", ".", "o", "r", "g", "/">>}

\* s from position k + 1 on is 10. + four digits + / or %2f + a non-empty
\* suffix of characters of the pattern's class whose last one is no period.
ClaimResidual(s, k) ==
    \E sep \in DoiSeparators :
        LET m == k + 7 + Len(sep)
        IN  /\ Len(s) > m
            /\ SubSeq(s, k + 1, k + 3) = <<"1", "0", ".">>
            /\ \A i \in (k + 4)..(k + 7) : IsDigit(s[i])
            /\ SubSeq(s, k + 8, m) = sep
            /\ \A i \in (m + 1)..Len(s) : s[i] \in DoiChars
            /\ s[Len(s)] # "."

\* The strings the claim says the check accepts.
ClaimAccepts(s) ==
    \E p \in ClaimPrefixes :
        /\ Len(p) <= Len(s)
        /\ SubSeq(s, 1, Len(p)) = p
        /\ ClaimResidual(s, Len(p))

\* C16: add_doi accepts a string (appends its entry) exactly when the string
\* is an optional doi: / (doi) / http(s)://(dx.)doi.org/ prefix followed by
\* 10. + four digits + / or %2f + a non-empty suffix of word or punctuation
\* characters that does not end in a period; so 10.1234/a is accepted and
\* 10.1234/abc. is rejected.
C16_DoiAcceptance ==
    last.op = "add_doi" =>
        (Len(Entries(obj, "dois")) = Len(Entries(pre, "dois")) + 1)
            = ClaimAccepts(last.a.doi.str)

\* The field each add_* method works on.
TargetFields ==
    [add_abstract |-> "abstracts", add_arxiv_eprint |-> "arxiv_eprints",
     add_doi |-> "dois", add_author |-> "authors",
     add_inspire_categories |-> "inspire_categories",
     add_private_notes |-> "_private_notes",
     add_publication_info |-> "publication_info",
     add_imprint_date |-> "imprints", add_preprint_date |-> "preprint_date",
     add_thesis |-> "thesis_info",
     add_accelerator_experiment |-> "accelerator_experiments",
     add_language |-> "languages", add_license_url |-> "license",
     add_public_note |-> "public_notes", add_title |-> "titles",
     add_title_translation |-> "title_translations", add_url |-> "urls",
     add_report_numbers |-> "report_numbers",
     add_collaboration |-> "collaborations",
     add_acquisition_source |-> "acquisition_source",
     add_document_type |-> "document_type"]

\* The keys the method op may change.
MayChange(op) ==
    IF op \in DOMAIN TargetFields
    THEN {TargetFields[op]} \cup
         (IF op \in {"add_arxiv_eprint", "add_doi", "add_publication_info"}
          THEN {"citeable"} ELSE {})
    ELSE {}

\* The keys that the last call added, removed or gave another value.
ChangedKeys ==
    {k \in DOMAIN obj \cup DOMAIN pre :
        \/ k \notin DOMAIN obj
        \/ k \notin DOMAIN pre
        \/ obj[k] # pre[k]}

\* C17: a call of an add_* method changes at most its own field and, for
\* add_arxiv_eprint, add_doi and add_publication_info alone, the citeable
\* key; every other key is in the record before and after with the same
\* value.  make_author and validate_object change no key.
C17_Frame ==
    /\ last.op # "__init__" => ChangedKeys \subseteq MayChange(last.op)
    /\ last.op \in {"make_author", "validate_object"} => obj = pre

\* add_publication_info on a record that held one doi and no
\* publication_info: the entry is added and dois is as it was.
C17_Witness ==
    /\ last.op = "add_publication_info"
    /\ "publication_info" \notin DOMAIN pre
    /\ "publication_info" \in DOMAIN obj
    /\ "dois" \in DOMAIN pre
    /\ Len(pre["dois"].list) = 1
    /\ obj["dois"] = pre["dois"]

\* C18: add_doi with a string the pattern rejects, on a record without the
\* key dois, leaves the key present with an empty sequence, so the record is
\* not the one before the call; an accepted add_doi on a record that has the
\* key appends its entry to the sequence already there.
C18_RejectedDoiEnsuresField ==
    last.op = "add_doi" =>
        /\ "dois" \in DOMAIN obj
        /\ (~LastDoiAccepted /\ "dois" \notin DOMAIN pre) =>
               obj["dois"] = PyList(<<>>) /\ obj # pre
        /\ (LastDoiAccepted /\ "dois" \in DOMAIN pre) =>
               obj["dois"].list =
                   Append(pre["dois"].list,
                          PyDict([value |-> last.a.doi,
                                  source |-> Resolved(last.a.source)]))

\* An accepted add_doi after a rejected one: the entry is the first of the
\* sequence the rejected call left.
C18_Witness ==
    /\ last.op = "add_doi"
    /\ LastDoiAccepted
    /\ "dois" \in DOMAIN pre
    /\ pre["dois"] = PyList(<<>>)
    /\ Len(obj["dois"].list) = 1

====
